---- MODULE Spec2Model ----
(***************************************************************************)
(* ca-injector: the admission handler registered on /pods (the Mutation    *)
(* Decider) and the background goroutine that sweeps all pods (the         *)
(* Compliance Reconciler), both in main.go.                                *)
(*                                                                         *)
(* A Go slice is modelled as [nil, elems]: nil and empty-but-allocated     *)
(* slices are different values, and the handler tests both ways            *)
(* (x == nil and len(x) == 0).  A field of the submitted JSON object is    *)
(* modelled as [kind, elems] with kind "absent", "null" or "array".        *)
(***************************************************************************)
EXTENDS Integers, Sequences, FiniteSets, TLC

\* ---------------------------------------------------------------- bounds
MaxContainers == 2
MaxCalls == 2
MaxPasses == 2
MaxEnvSteps == 1

\* ------------------------------------------------------------- constants
label == "microcumul.us/injectssl"
volumeName == "microcumulus-injected-ssl"
caPath == "/ssl/ca.crt"
mountPath == "/ssl"

Secrets == {"ca-secret", "other-secret"}
Namespaces == {"default"}
Names == {"worker-1", "worker-2"}

\* ------------------------------------------------------------ Go values
NilSlice == [nil |-> TRUE, elems |-> <<>>]
MkSlice(s) == [nil |-> FALSE, elems |-> s]
NoSecret == [nil |-> TRUE, secretName |-> ""]
SecretSource(s) == [nil |-> FALSE, secretName |-> s]

\* pod.Annotations[label]: a Go map lookup, "" for a missing key or nil map
Lookup(annotations, key) ==
  IF key \in DOMAIN annotations THEN annotations[key] ELSE ""

\* fmt.Sprintf("%d", i) for i >= 0
Digits == <<"0", "1", "2", "3", "4", "5", "6", "7", "8", "9">>
RECURSIVE Itoa(_)
Itoa(i) ==
  IF i < 10 THEN Digits[i + 1] ELSE Itoa(i \div 10) \o Digits[(i % 10) + 1]

\* ----------------------------------------------------- submitted objects
AbsentField == [kind |-> "absent", elems |-> <<>>]
NullField == [kind |-> "null", elems |-> <<>>]
ArrayField(s) == [kind |-> "array", elems |-> s]

EnvVar(n, v) == [kind |-> "env", name |-> n, value |-> v]
Mount(n, p, ro) == [kind |-> "mount", name |-> n, mountPath |-> p, readOnly |-> ro]
Volume(n, src) == [kind |-> "volume", name |-> n, secret |-> src]

NoAnnotations == [k \in {} |-> ""]
AnnotationChoices ==
  {NoAnnotations, [k \in {"app"} |-> "web"]}
    \cup {[k \in {label} |-> v] : v \in {""} \cup Secrets}

RawEnvChoices ==
  {AbsentField, ArrayField(<<>>),
   ArrayField(<<EnvVar("FOO", "bar"), EnvVar("SSL_CERT_FILE", caPath)>>)}
RawMountChoices ==
  {AbsentField, ArrayField(<<>>), ArrayField(<<Mount("data", "/data", FALSE)>>)}
RawVolumeChoices ==
  {AbsentField, NullField, ArrayField(<<>>),
   ArrayField(<<Volume("data", NoSecret)>>),
   ArrayField(<<Volume(volumeName, SecretSource("ca-secret"))>>),
   ArrayField(<<Volume("data", NoSecret), Volume("tls", SecretSource("other-secret"))>>)}

RawContainers == [env : RawEnvChoices, volumeMounts : RawMountChoices]

SeqsUpTo(S, n) == UNION {[1..k -> S] : k \in 0..n}

RawPods ==
  [namespace : Namespaces, name : {"worker-1"}, annotations : AnnotationChoices,
   volumes : RawVolumeChoices, containers : SeqsUpTo(RawContainers, MaxContainers)]

\* the typed pod the deserializer fills in: a slice field is nil unless the
\* object carries an array there
DecodeField(f) == IF f.kind = "array" THEN MkSlice(f.elems) ELSE NilSlice

DecodeRaw(raw) ==
  [namespace |-> raw.namespace, name |-> raw.name,
   annotations |-> raw.annotations,
   volumes |-> DecodeField(raw.volumes),
   containers |-> [i \in 1..Len(raw.containers) |->
                     [env |-> DecodeField(raw.containers[i].env),
                      volumeMounts |-> DecodeField(raw.containers[i].volumeMounts)]]]

\* var pod corev1.Pod
ZeroPod ==
  [namespace |-> "", name |-> "", annotations |-> NoAnnotations,
   volumes |-> NilSlice, containers |-> <<>>]

\* ------------------------------------------------------- Mutation Decider
\* type p struct{Op, Path, Value}; Path is the JSON pointer, one token per
\* "/"-separated segment
P(path, value) == [op |-> "add", path |-> path, value |-> value]

\* []interface{}{}
EmptyArray == ArrayField(<<>>)

\* mutant: the volume append without the array-init for a nil volume list
VolumeOpsNoInit(pod) ==
  <<P(<<"spec", "volumes", "-">>,
      Volume(volumeName, SecretSource(Lookup(pod.annotations, label))))>>

\* mutant: the volume's secret is named after the volume, not the annotation
VolumeOpsFixedSecret(pod) ==
  (IF pod.volumes.nil THEN <<P(<<"spec", "volumes">>, EmptyArray)>> ELSE <<>>)
    \o <<P(<<"spec", "volumes", "-">>, Volume(volumeName, SecretSource(volumeName)))>>

VolumeOps(pod) ==
  (IF pod.volumes.nil THEN <<P(<<"spec", "volumes">>, EmptyArray)>> ELSE <<>>)
    \o <<P(<<"spec", "volumes", "-">>,
           Volume(volumeName, SecretSource(Lookup(pod.annotations, label))))>>

\* mutant: the NODE_EXTRA_CA_CERTS append is left out
ContainerOpsOneEnv(i, ctr) ==
  LET ps0 == <<P(<<"spec", "containers", Itoa(i), "env", "-">>,
                 EnvVar("SSL_CERT_FILE", caPath)),
               P(<<"spec", "containers", Itoa(i), "volumeMounts", "-">>,
                 Mount(volumeName, mountPath, TRUE))>>
      ps1 == IF ctr.env.nil
               THEN <<P(<<"spec", "containers", Itoa(i), "env">>, EmptyArray)>> \o ps0
               ELSE ps0
  IN  IF Len(ctr.volumeMounts.elems) = 0
        THEN <<P(<<"spec", "containers", Itoa(i), "volumeMounts">>, EmptyArray)>> \o ps1
        ELSE ps1

\* mutant: container paths count from 1
ContainerOpsOneBased(i, ctr) ==
  LET ps0 == <<P(<<"spec", "containers", Itoa(i + 1), "env", "-">>,
                 EnvVar("SSL_CERT_FILE", caPath)),
               P(<<"spec", "containers", Itoa(i + 1), "env", "-">>,
                 EnvVar("NODE_EXTRA_CA_CERTS", caPath)),
               P(<<"spec", "containers", Itoa(i + 1), "volumeMounts", "-">>,
                 Mount(volumeName, mountPath, TRUE))>>
      ps1 == IF ctr.env.nil
               THEN <<P(<<"spec", "containers", Itoa(i + 1), "env">>, EmptyArray)>> \o ps0
               ELSE ps0
  IN  IF Len(ctr.volumeMounts.elems) = 0
        THEN <<P(<<"spec", "containers", Itoa(i + 1), "volumeMounts">>, EmptyArray)>>
               \o ps1
        ELSE ps1

\* mutant: the env list is tested with len(ctr.Env) == 0, as the mounts are
ContainerOpsLenEnv(i, ctr) ==
  LET ps0 == <<P(<<"spec", "containers", Itoa(i), "env", "-">>,
                 EnvVar("SSL_CERT_FILE", caPath)),
               P(<<"spec", "containers", Itoa(i), "env", "-">>,
                 EnvVar("NODE_EXTRA_CA_CERTS", caPath)),
               P(<<"spec", "containers", Itoa(i), "volumeMounts", "-">>,
                 Mount(volumeName, mountPath, TRUE))>>
      ps1 == IF Len(ctr.env.elems) = 0
               THEN <<P(<<"spec", "containers", Itoa(i), "env">>, EmptyArray)>> \o ps0
               ELSE ps0
  IN  IF Len(ctr.volumeMounts.elems) = 0
        THEN <<P(<<"spec", "containers", Itoa(i), "volumeMounts">>, EmptyArray)>> \o ps1
        ELSE ps1

\* mutant: the inits are put in front of the appends of their own array
ContainerOpsStatedOrder(i, ctr) ==
  (IF ctr.env.nil
     THEN <<P(<<"spec", "containers", Itoa(i), "env">>, EmptyArray)>> ELSE <<>>)
    \o <<P(<<"spec", "containers", Itoa(i), "env", "-">>,
           EnvVar("SSL_CERT_FILE", caPath)),
         P(<<"spec", "containers", Itoa(i), "env", "-">>,
           EnvVar("NODE_EXTRA_CA_CERTS", caPath))>>
    \o (IF Len(ctr.volumeMounts.elems) = 0
          THEN <<P(<<"spec", "containers", Itoa(i), "volumeMounts">>, EmptyArray)>>
          ELSE <<>>)
    \o <<P(<<"spec", "containers", Itoa(i), "volumeMounts", "-">>,
           Mount(volumeName, mountPath, TRUE))>>

\* mutant: the env array is initialised whatever the container has
ContainerOpsAlwaysInit(i, ctr) ==
  LET ps0 == <<P(<<"spec", "containers", Itoa(i), "env", "-">>,
                 EnvVar("SSL_CERT_FILE", caPath)),
               P(<<"spec", "containers", Itoa(i), "env", "-">>,
                 EnvVar("NODE_EXTRA_CA_CERTS", caPath)),
               P(<<"spec", "containers", Itoa(i), "volumeMounts", "-">>,
                 Mount(volumeName, mountPath, TRUE))>>
      ps1 == <<P(<<"spec", "containers", Itoa(i), "env">>, EmptyArray)>> \o ps0
  IN  IF Len(ctr.volumeMounts.elems) = 0
        THEN <<P(<<"spec", "containers", Itoa(i), "volumeMounts">>, EmptyArray)>> \o ps1
        ELSE ps1

\* the body of "for i, ctr := range pod.Spec.Containers"; i is Go's index
ContainerOps(i, ctr) ==
  LET ps0 == <<P(<<"spec", "containers", Itoa(i), "env", "-">>,
                 EnvVar("SSL_CERT_FILE", caPath)),
               P(<<"spec", "containers", Itoa(i), "env", "-">>,
                 EnvVar("NODE_EXTRA_CA_CERTS", caPath)),
               P(<<"spec", "containers", Itoa(i), "volumeMounts", "-">>,
                 Mount(volumeName, mountPath, TRUE))>>
      ps1 == IF ctr.env.nil
               THEN <<P(<<"spec", "containers", Itoa(i), "env">>, EmptyArray)>> \o ps0
               ELSE ps0
      ps2 == IF Len(ctr.volumeMounts.elems) = 0
               THEN <<P(<<"spec", "containers", Itoa(i), "volumeMounts">>, EmptyArray)>>
                      \o ps1
               ELSE ps1
  IN  ps2

RECURSIVE AllContainerOps(_, _)
AllContainerOps(ctrs, n) ==
  IF n = 0 THEN <<>>
  ELSE AllContainerOps(ctrs, n - 1) \o ContainerOps(n - 1, ctrs[n])

BuildPatch(pod) ==
  VolumeOps(pod) \o AllContainerOps(pod.containers, Len(pod.containers))

\* json.Marshal(patch): "value" carries omitempty, which drops only a nil
\* interface value
MarshalOp(op) ==
  [op |-> op.op, path |-> op.path,
   hasValue |-> op.value.kind # "nilInterface", value |-> op.value]
Marshal(patch) == [i \in 1..Len(patch) |-> MarshalOp(patch[i])]

NoResponse == [nil |-> TRUE, allowed |-> FALSE, patch |-> NilSlice,
               patchType |-> "", message |-> ""]
AllowUnchanged == [nil |-> FALSE, allowed |-> TRUE, patch |-> NilSlice,
                   patchType |-> "", message |-> ""]
AllowWithPatch(patch) ==
  [nil |-> FALSE, allowed |-> TRUE, patch |-> MkSlice(Marshal(patch)),
   patchType |-> "JSONPatch", message |-> "modified"]

\* mutant: only a missing annotation key is allowed unchanged
DecideKeyPresent(request) ==
  LET pod == IF request.decodes THEN DecodeRaw(request.raw) ELSE ZeroPod
  IN  IF ~request.decodes
        THEN [res |-> NoResponse, err |-> TRUE, inc |-> FALSE,
              patch |-> NilSlice, pod |-> pod]
      ELSE IF label \notin DOMAIN pod.annotations
        THEN [res |-> AllowUnchanged, err |-> FALSE, inc |-> FALSE,
              patch |-> NilSlice, pod |-> pod]
      ELSE [res |-> AllowWithPatch(BuildPatch(pod)), err |-> FALSE, inc |-> TRUE,
            patch |-> MkSlice(BuildPatch(pod)), pod |-> pod]

\* mutant: the decode error is logged but not returned
DecideNoReturn(request) ==
  LET pod == IF request.decodes THEN DecodeRaw(request.raw) ELSE ZeroPod
  IN  IF Lookup(pod.annotations, label) = ""
        THEN [res |-> AllowUnchanged, err |-> FALSE, inc |-> FALSE,
              patch |-> NilSlice, pod |-> pod]
      ELSE [res |-> AllowWithPatch(BuildPatch(pod)), err |-> FALSE, inc |-> TRUE,
            patch |-> MkSlice(BuildPatch(pod)), pod |-> pod]

\* the function handed to admitFunc: the result (res, err), whether
\* ctrPatches is incremented for (pod.Namespace, pod.Name), the local patch
\* slice at return and the decoded pod
Decide(request) ==
  LET pod == IF request.decodes THEN DecodeRaw(request.raw) ELSE ZeroPod
  IN  IF ~request.decodes
        THEN [res |-> NoResponse, err |-> TRUE, inc |-> FALSE,
              patch |-> NilSlice, pod |-> pod]
      ELSE IF Lookup(pod.annotations, label) = ""
        THEN [res |-> AllowUnchanged, err |-> FALSE, inc |-> FALSE,
              patch |-> NilSlice, pod |-> pod]
      ELSE [res |-> AllowWithPatch(BuildPatch(pod)), err |-> FALSE, inc |-> TRUE,
            patch |-> MkSlice(BuildPatch(pod)), pod |-> pod]

\* ------------------------------------------- replaying a patch on the object
\* JSON Patch "add": a member of an existing object is set (replacing what is
\* there); "-" appends to an existing array; an array index must be a
\* position of the array; anything else fails the whole patch
IsIndex(tok, n) == \E k \in 0..(n - 1) : Itoa(k) = tok
IndexOf(tok, n) == 1 + CHOOSE k \in 0..(n - 1) : Itoa(k) = tok

Failed(doc) == [ok |-> FALSE, doc |-> doc]
Applied(doc) == [ok |-> TRUE, doc |-> doc]

ApplyToContainer(ctr, rest, value) ==
  IF rest = <<"env">> THEN Applied([ctr EXCEPT !.env = value])
  ELSE IF rest = <<"volumeMounts">> THEN Applied([ctr EXCEPT !.volumeMounts = value])
  ELSE IF rest = <<"env", "-">> /\ ctr.env.kind = "array"
    THEN Applied([ctr EXCEPT !.env.elems = Append(@, value)])
  ELSE IF rest = <<"volumeMounts", "-">> /\ ctr.volumeMounts.kind = "array"
    THEN Applied([ctr EXCEPT !.volumeMounts.elems = Append(@, value)])
  ELSE Failed(ctr)

ApplyOp(doc, mop) ==
  LET path == mop.path
  IN  IF mop.op # "add" \/ ~mop.hasValue \/ Len(path) < 2 \/ path[1] # "spec"
        THEN Failed(doc)
      ELSE IF path = <<"spec", "volumes">>
        THEN Applied([doc EXCEPT !.volumes = mop.value])
      ELSE IF path = <<"spec", "volumes", "-">> /\ doc.volumes.kind = "array"
        THEN Applied([doc EXCEPT !.volumes.elems = Append(@, mop.value)])
      ELSE IF Len(path) >= 4 /\ path[2] = "containers"
              /\ IsIndex(path[3], Len(doc.containers))
        THEN LET i == IndexOf(path[3], Len(doc.containers))
                 r == ApplyToContainer(doc.containers[i],
                                       SubSeq(path, 4, Len(path)), mop.value)
             IN  IF r.ok THEN Applied([doc EXCEPT !.containers[i] = r.doc])
                 ELSE Failed(doc)
      ELSE Failed(doc)

RECURSIVE ApplyPatch(_, _, _)
ApplyPatch(doc, mops, n) ==
  IF n = 0 THEN Applied(doc)
  ELSE LET before == ApplyPatch(doc, mops, n - 1)
       IN  IF before.ok THEN ApplyOp(before.doc, mops[n]) ELSE before

\* the object the API server stores for a response: the submitted object when
\* there is no patch, the patched object when the patch replays
Replay(raw, res) ==
  IF res.patch.nil THEN Applied(raw)
  ELSE ApplyPatch(raw, res.patch.elems, Len(res.patch.elems))

\* --------------------------------------------------- Compliance Reconciler
Keys == Namespaces \X Names
KeyOf(pod) == <<pod.namespace, pod.name>>

OwnerRef(k, n) == [kind |-> k, name |-> n, uid |-> "uid-" \o n, apiVersion |-> "apps/v1"]

ListedVolumeChoices ==
  {NilSlice,
   MkSlice(<<Volume(volumeName, SecretSource("ca-secret"))>>),
   MkSlice(<<Volume(volumeName, SecretSource("other-secret"))>>),
   MkSlice(<<Volume("data", NoSecret), Volume("tls", SecretSource("ca-secret"))>>)}

\* owner references and containers of the listed pods: worker-1 is a bare
\* pod whose container has no injection, worker-2 a pod of a ReplicaSet (its
\* first owner reference; a second one follows) whose container carries the
\* injected env vars and mount
ListedOwnerChoice(name) ==
  IF name = "worker-1"
    THEN << <<>>, <<[env |-> NilSlice, volumeMounts |-> NilSlice]>> >>
    ELSE << <<OwnerRef("ReplicaSet", "worker-rs"), OwnerRef("Lease", "worker-lease")>>,
            <<[env |-> MkSlice(<<EnvVar("SSL_CERT_FILE", caPath),
                                 EnvVar("NODE_EXTRA_CA_CERTS", caPath)>>),
               volumeMounts |-> MkSlice(<<Mount(volumeName, mountPath, TRUE)>>)]>> >>

\* the pods a List call can return
ListedPods ==
  {[kind |-> "Pod", apiVersion |-> "v1", namespace |-> k[1], name |-> k[2],
    uid |-> "uid-" \o k[2], resourceVersion |-> "1",
    ownerReferences |-> ListedOwnerChoice(k[2])[1], annotations |-> a, volumes |-> v,
    containers |-> ListedOwnerChoice(k[2])[2]] :
     k \in Keys,
     a \in AnnotationChoices \ {[k2 \in {"app"} |-> "web"]},
     v \in ListedVolumeChoices}

\* mutant: the scan looks for the well-known volume by its name
HasSecretVolumeByName(pod, secret) ==
  \E j \in 1..Len(pod.volumes.elems) : pod.volumes.elems[j].name = volumeName

\* "for _, vol := range pod.Spec.Volumes { if vol.Secret != nil &&
\* vol.Secret.SecretName == secret { continue items } }"
HasSecretVolume(pod, secret) ==
  \E j \in 1..Len(pod.volumes.elems) :
     /\ ~pod.volumes.elems[j].secret.nil
     /\ pod.volumes.elems[j].secret.secretName = secret

\* mutant: the "secret == \"\"" skip is missing
NeedsDeleteNoSkip(pod) == ~HasSecretVolume(pod, Lookup(pod.annotations, label))

\* whether the loop body reaches the delete for this pod
NeedsDelete(pod) ==
  LET secret == Lookup(pod.annotations, label)
  IN  secret # "" /\ ~HasSecretVolume(pod, secret)

\* mutant: the event is always created for the pod itself
InvolvedObjectPod(pod) ==
  [kind |-> pod.kind, namespace |-> pod.namespace, name |-> pod.name,
   uid |-> pod.uid, apiVersion |-> pod.apiVersion,
   resourceVersion |-> pod.resourceVersion]

\* the ObjectReference the event is created for
InvolvedObject(pod) ==
  IF Len(pod.ownerReferences) > 0
    THEN [kind |-> pod.ownerReferences[1].kind, namespace |-> pod.namespace,
          name |-> pod.ownerReferences[1].name, uid |-> pod.ownerReferences[1].uid,
          apiVersion |-> pod.ownerReferences[1].apiVersion, resourceVersion |-> ""]
    ELSE [kind |-> pod.kind, namespace |-> pod.namespace, name |-> pod.name,
          uid |-> pod.uid, apiVersion |-> pod.apiVersion,
          resourceVersion |-> pod.resourceVersion]

\* ------------------------------------------------------------------ state
VARIABLES
  request,      \* the admission review being handled: [decodes, raw]
  outcome,      \* what the handler returned for it: [res, err, inc, patch, pod]
  apc,          \* "pending": request not yet handled; "done": handled
  ctrPatches,   \* certinjector_pods_mutated, by <<namespace, name>>
  calls,        \* admission calls handled so far
  patched,      \* responses with a patch sent so far, by <<namespace, name>>
  cluster,      \* the pods that exist, at most one per <<namespace, name>>
  rpc,          \* the reconciler goroutine's position
  items,        \* pods.Items of the current pass
  idx,          \* position of the range loop in items
  ctrDeletes,   \* certinjector_pods_deleted, by <<namespace, name>>
  ctrAtList,    \* ctrDeletes as it was when the current pass listed
  log,          \* the API calls of the current pass after List, in order
  eventFailed,  \* whether an Events().Create call of the current pass failed
  listErr,      \* whether the last List call returned an error
  prevFailed,   \* keys whose Delete call failed in the pass before the current
  passes,       \* List calls that succeeded so far
  envSteps,     \* changes made to the cluster by other clients so far
  issued        \* Delete calls made so far, by <<namespace, name>>

avars == <<request, outcome, apc, ctrPatches, calls, patched>>
rvars == <<cluster, rpc, items, idx, ctrDeletes, ctrAtList, log, eventFailed,
           listErr, prevFailed,
          passes, envSteps, issued>>
vars == <<request, outcome, apc, ctrPatches, calls, patched,
          cluster, rpc, items, idx, ctrDeletes, ctrAtList, log, eventFailed,
          listErr, prevFailed,
          passes, envSteps, issued>>

ZeroCounters == [k \in Keys |-> 0]
Inc(ctr, k) == [ctr EXCEPT ![k] = @ + 1]

\* ------------------------------------------------------ admission actions
EmptyRaw ==
  [namespace |-> "", name |-> "", annotations |-> NoAnnotations,
   volumes |-> AbsentField, containers |-> <<>>]
\* a review whose ar.Request.Object.Raw the deserializer rejects
Undecodable == [decodes |-> FALSE, raw |-> EmptyRaw]
Decodable(raw) == [decodes |-> TRUE, raw |-> raw]

NoOutcome == [res |-> NoResponse, err |-> FALSE, inc |-> FALSE,
              patch |-> NilSlice, pod |-> ZeroPod]

OtherName(n) == CHOOSE m \in Names : m # n

\* the reviews that may follow a handled one: the object the API server
\* stored (admitted again on an update; the submitted object itself when it
\* was allowed unchanged), the same object under another name, or an
\* undecodable one
FollowUps ==
  {Undecodable}
    \cup (IF request.decodes
            THEN {Decodable([request.raw EXCEPT !.name = OtherName(@)])}
                   \cup (IF ~outcome.err
                           THEN LET stored == Replay(request.raw, outcome.res)
                                IN  IF stored.ok THEN {Decodable(stored.doc)} ELSE {}
                           ELSE {})
            ELSE {})

\* the response carries a JSON patch
HasPatch(d) == ~d.err /\ ~d.res.nil /\ d.res.patchType = "JSONPatch"

\* mutant: the counter counts every review that decodes
AdmitCountsAll ==
  /\ apc = "pending"
  /\ LET d == Decide(request)
     IN  /\ outcome' = d
         /\ ctrPatches' = IF ~d.err THEN Inc(ctrPatches, KeyOf(request.raw))
                          ELSE ctrPatches
         /\ patched' = IF HasPatch(d) THEN Inc(patched, KeyOf(request.raw))
                       ELSE patched
  /\ apc' = "done"
  /\ calls' = calls + 1
  /\ UNCHANGED <<request, rvars>>

\* one call of the /pods handler, from Decode to return
Admit ==
  /\ apc = "pending"
  /\ LET d == Decide(request)
     IN  /\ outcome' = d
         /\ ctrPatches' = IF d.inc THEN Inc(ctrPatches, KeyOf(d.pod))
                          ELSE ctrPatches
         /\ patched' = IF HasPatch(d) THEN Inc(patched, KeyOf(request.raw))
                       ELSE patched
  /\ apc' = "done"
  /\ calls' = calls + 1
  /\ UNCHANGED <<request, rvars>>

\* the API server sends the next review
Receive ==
  /\ apc = "done"
  /\ calls < MaxCalls
  /\ \E r \in FollowUps : request' = r
  /\ apc' = "pending"
  /\ UNCHANGED <<outcome, ctrPatches, calls, patched, rvars>>

\* -------------------------------------------------- reconciler actions
Perms(S) ==
  {f \in [1..Cardinality(S) -> S] : \A i, j \in 1..Cardinality(S) : f[i] = f[j] => i = j}

\* where the range loop goes after the pod at idx: the next pod, or out of
\* the loop and to the top of "for {" with f = true
AfterPod ==
  IF idx < Len(items) THEN /\ idx' = idx + 1
                           /\ rpc' = "pod"
  ELSE /\ idx' = 0
       /\ rpc' = "sleep"

\* time.Sleep(5 * time.Second); f is false, so no second sleep
StartupSleep ==
  /\ rpc = "startup"
  /\ rpc' = "list"
  /\ UNCHANGED <<avars, cluster, items, idx, ctrDeletes, ctrAtList, log,
                 eventFailed, listErr, prevFailed,
                passes, envSteps, issued>>

\* time.Sleep(60 * time.Second) at the top of every later iteration
Sleep60 ==
  /\ rpc = "sleep"
  /\ rpc' = "list"
  /\ UNCHANGED <<avars, cluster, items, idx, ctrDeletes, ctrAtList, log,
                 eventFailed, listErr, prevFailed,
                passes, envSteps, issued>>

\* mutant: the pass lists only the pods that were not in the listing before
ListOkNewOnly ==
  /\ rpc = "list"
  /\ passes < MaxPasses
  /\ \E order \in Perms(cluster \ {items[n] : n \in 1..Len(items)}) :
       /\ items' = order
       /\ IF Len(order) > 0 THEN idx' = 1 /\ rpc' = "pod"
          ELSE idx' = 0 /\ rpc' = "sleep"
  /\ log' = <<>>
  /\ eventFailed' = FALSE
  /\ listErr' = FALSE
  /\ prevFailed' = {log[n].key : n \in {m \in 1..Len(log) :
                                          log[m].call = "delete" /\ ~log[m].ok}}
  /\ ctrAtList' = ctrDeletes
  /\ passes' = passes + 1
  /\ UNCHANGED <<avars, cluster, ctrDeletes, envSteps, issued>>

\* Pods("").List succeeds: the loop starts on a snapshot of the cluster
ListOk ==
  /\ rpc = "list"
  /\ passes < MaxPasses
  /\ \E order \in Perms(cluster) :
       /\ items' = order
       /\ IF Len(order) > 0 THEN idx' = 1 /\ rpc' = "pod"
          ELSE idx' = 0 /\ rpc' = "sleep"
  /\ log' = <<>>
  /\ eventFailed' = FALSE
  /\ listErr' = FALSE
  /\ prevFailed' = {log[n].key : n \in {m \in 1..Len(log) :
                                          log[m].call = "delete" /\ ~log[m].ok}}
  /\ ctrAtList' = ctrDeletes
  /\ passes' = passes + 1
  /\ UNCHANGED <<avars, cluster, ctrDeletes, envSteps, issued>>

\* mutant: the List error is logged with Error and the pass is skipped
ListFailContinue ==
  /\ rpc = "list"
  /\ rpc' = "sleep"
  /\ listErr' = TRUE
  /\ UNCHANGED <<avars, cluster, items, idx, ctrDeletes, ctrAtList, log,
                 eventFailed, prevFailed, passes, envSteps, issued>>

\* Pods("").List fails: logrus Fatal logs and calls os.Exit(1)
ListFail ==
  /\ rpc = "list"
  /\ rpc' = "exited"
  /\ listErr' = TRUE
  /\ UNCHANGED <<avars, cluster, items, idx, ctrDeletes, ctrAtList, log,
                 eventFailed, prevFailed, passes, envSteps, issued>>

\* mutant: the event is created after the checks, for the pods to delete
EventAfterCheck ==
  /\ rpc = "pod"
  /\ IF NeedsDelete(items[idx])
       THEN /\ log' = Append(log, [call |-> "event", key |-> KeyOf(items[idx]),
                                    involved |-> InvolvedObject(items[idx])])
            /\ \E ok \in BOOLEAN : eventFailed' = (eventFailed \/ ~ok)
            /\ ctrDeletes' = Inc(ctrDeletes, KeyOf(items[idx]))
            /\ rpc' = "delete"
            /\ idx' = idx
       ELSE /\ log' = log
            /\ eventFailed' = eventFailed
            /\ ctrDeletes' = ctrDeletes
            /\ AfterPod
  /\ UNCHANGED <<avars, cluster, items, ctrAtList, listErr, prevFailed, passes, envSteps, issued>>

\* the loop body up to the delete call: the event is created (its result is
\* dropped), then the annotation and the volumes decide
EventAndCheck ==
  /\ rpc = "pod"
  /\ log' = Append(log, [call |-> "event", key |-> KeyOf(items[idx]),
                          involved |-> InvolvedObject(items[idx])])
  /\ \E ok \in BOOLEAN : eventFailed' = (eventFailed \/ ~ok)
  /\ IF NeedsDelete(items[idx])
       THEN /\ ctrDeletes' = Inc(ctrDeletes, KeyOf(items[idx]))
            /\ rpc' = "delete"
            /\ idx' = idx
       ELSE /\ ctrDeletes' = ctrDeletes
            /\ AfterPod
  /\ UNCHANGED <<avars, cluster, items, ctrAtList, listErr, prevFailed, passes, envSteps, issued>>

\* mutant: a Delete error breaks out of the range loop
DeletePodAbort ==
  /\ rpc = "delete"
  /\ \E ok \in BOOLEAN :
       /\ ok => \E q \in cluster : KeyOf(q) = KeyOf(items[idx])
       /\ cluster' = IF ok THEN {q \in cluster : KeyOf(q) # KeyOf(items[idx])}
                     ELSE cluster
       /\ log' = Append(log, [call |-> "delete", key |-> KeyOf(items[idx]), ok |-> ok])
       /\ IF ok THEN AfterPod ELSE idx' = 0 /\ rpc' = "sleep"
  /\ issued' = Inc(issued, KeyOf(items[idx]))
  /\ UNCHANGED <<avars, items, ctrDeletes, ctrAtList, eventFailed, listErr, prevFailed,
                 passes, envSteps>>

\* mutant: the counter is taken back when the Delete call fails
DeletePodRollback ==
  /\ rpc = "delete"
  /\ \E ok \in BOOLEAN :
       /\ ok => \E q \in cluster : KeyOf(q) = KeyOf(items[idx])
       /\ cluster' = IF ok THEN {q \in cluster : KeyOf(q) # KeyOf(items[idx])}
                     ELSE cluster
       /\ log' = Append(log, [call |-> "delete", key |-> KeyOf(items[idx]), ok |-> ok])
       /\ ctrDeletes' = IF ok THEN ctrDeletes
                        ELSE [ctrDeletes EXCEPT ![KeyOf(items[idx])] = @ - 1]
  /\ AfterPod
  /\ issued' = Inc(issued, KeyOf(items[idx]))
  /\ UNCHANGED <<avars, items, ctrAtList, eventFailed, listErr, prevFailed,
                 passes, envSteps>>

\* Pods(pod.Namespace).Delete(pod.Name): removes whatever pod has that name
\* now; an error (also for a pod that is gone) is logged and the loop goes on
DeletePod ==
  /\ rpc = "delete"
  /\ \E ok \in BOOLEAN :
       /\ ok => \E q \in cluster : KeyOf(q) = KeyOf(items[idx])
       /\ cluster' = IF ok THEN {q \in cluster : KeyOf(q) # KeyOf(items[idx])}
                     ELSE cluster
       /\ log' = Append(log, [call |-> "delete", key |-> KeyOf(items[idx]), ok |-> ok])
  /\ AfterPod
  /\ issued' = Inc(issued, KeyOf(items[idx]))
  /\ UNCHANGED <<avars, items, ctrDeletes, ctrAtList, eventFailed, listErr, prevFailed,
                 passes, envSteps>>

\* another client removes a pod
EnvRemove ==
  /\ envSteps < MaxEnvSteps
  /\ rpc # "exited"
  /\ \E q \in cluster : cluster' = cluster \ {q}
  /\ envSteps' = envSteps + 1
  /\ UNCHANGED <<avars, rpc, items, idx, ctrDeletes, ctrAtList, log, eventFailed,
                 listErr, prevFailed, passes, issued>>

\* the pod as the webhook's patch leaves its volumes: one more volume, of
\* the annotation's secret
Injected(pod) ==
  [pod EXCEPT !.volumes =
     MkSlice(Append(@.elems,
                    Volume(volumeName, SecretSource(Lookup(pod.annotations, label)))))]

Range(seq) == {seq[i] : i \in 1..Len(seq)}

\* another client (a controller recreating its pod) creates a pod the
\* reconciler has seen, under the same name, as it was or with the injected
\* volume; a pod that still has that name is replaced
EnvCreate ==
  /\ envSteps < MaxEnvSteps
  /\ rpc # "exited"
  /\ \E r \in cluster \cup Range(items) :
       \E q \in {r} \cup (IF Lookup(r.annotations, label) # "" THEN {Injected(r)} ELSE {}) :
         /\ q \notin cluster
         /\ cluster' = {o \in cluster : KeyOf(o) # KeyOf(q)} \cup {q}
  /\ envSteps' = envSteps + 1
  /\ UNCHANGED <<avars, rpc, items, idx, ctrDeletes, ctrAtList, log, eventFailed,
                 listErr, prevFailed, passes, issued>>

\* ---------------------------------------------------------- specifications
InitAdmission ==
  /\ request \in {Decodable(r) : r \in RawPods} \cup {Undecodable}
  /\ outcome = NoOutcome
  /\ apc = "pending"
  /\ ctrPatches = ZeroCounters
  /\ calls = 0
  /\ patched = ZeroCounters

NoAdmission ==
  /\ request = Undecodable
  /\ outcome = NoOutcome
  /\ apc = "idle"
  /\ ctrPatches = ZeroCounters
  /\ calls = 0
  /\ patched = ZeroCounters

\* the clusters the reconciler may start on: for every key no pod or one pod
ClusterChoices ==
  LET slots == {{}} \cup {{q} : q \in ListedPods}
      fits(f) == \A k \in Keys : \A q \in f[k] : KeyOf(q) = k
  IN  {UNION {f[k] : k \in Keys} : f \in {g \in [Keys -> slots] : fits(g)}}

InitReconciler ==
  /\ cluster \in ClusterChoices
  /\ rpc = "startup"
  /\ items = <<>>
  /\ idx = 0
  /\ ctrDeletes = ZeroCounters
  /\ ctrAtList = ZeroCounters
  /\ log = <<>>
  /\ eventFailed = FALSE
  /\ listErr = FALSE
  /\ prevFailed = {}
  /\ passes = 0
  /\ envSteps = 0
  /\ issued = ZeroCounters

NoReconciler ==
  /\ cluster = {}
  /\ rpc = "startup"
  /\ items = <<>>
  /\ idx = 0
  /\ ctrDeletes = ZeroCounters
  /\ ctrAtList = ZeroCounters
  /\ log = <<>>
  /\ eventFailed = FALSE
  /\ listErr = FALSE
  /\ prevFailed = {}
  /\ passes = 0
  /\ envSteps = 0
  /\ issued = ZeroCounters

InitAdmit == InitAdmission /\ NoReconciler
NextAdmit == Admit \/ Receive
SpecAdmit == InitAdmit /\ [][NextAdmit]_vars

InitRecon == NoAdmission /\ InitReconciler
NextRecon ==
  \/ StartupSleep
  \/ Sleep60
  \/ ListOk
  \/ ListFail
  \/ EventAndCheck
  \/ DeletePod
  \/ EnvRemove
  \/ EnvCreate
SpecRecon == InitRecon /\ [][NextRecon]_vars

\* the reconciler over the pods present at its start (other clients remove
\* pods but create none) when List calls succeed and Delete calls eventually
\* succeed: no List error, and in the last pass of the bound a Delete fails
\* only for a pod that is gone
DeleteSettles ==
  passes = MaxPasses =>
    \/ log'[Len(log')].ok
    \/ \A q \in cluster : KeyOf(q) # KeyOf(items[idx])
NextLive ==
  \/ StartupSleep
  \/ Sleep60
  \/ ListOk
  \/ EventAndCheck
  \/ DeletePod /\ DeleteSettles
  \/ EnvRemove
\* the goroutine is scheduled, its sleeps end and its API calls return
FairReconciler ==
  /\ WF_vars(StartupSleep)
  /\ WF_vars(Sleep60)
  /\ WF_vars(ListOk)
  /\ WF_vars(EventAndCheck)
  /\ WF_vars(DeletePod /\ DeleteSettles)
SpecLive == InitRecon /\ [][NextLive]_vars /\ FairReconciler

\* ================================================================ claims
\* ---- vocabulary of the claims about the Mutation Decider
Handled == apc = "done" /\ request.decodes
Trigger == Lookup(request.raw.annotations, label)
Annotated == Handled /\ Trigger # ""
Submitted == request.raw
NumContainers == Len(request.raw.containers)
PatchOps == outcome.res.patch.elems
Stored == Replay(request.raw, outcome.res)

OpsAt(path) == {n \in 1..Len(PatchOps) : PatchOps[n].path = path}
VolumeInit == <<"spec", "volumes">>
VolumeAppend == <<"spec", "volumes", "-">>
EnvInit(i) == <<"spec", "containers", Itoa(i), "env">>
EnvAppend(i) == <<"spec", "containers", Itoa(i), "env", "-">>
MountInit(i) == <<"spec", "containers", Itoa(i), "volumeMounts">>
MountAppend(i) == <<"spec", "containers", Itoa(i), "volumeMounts", "-">>

FieldLen(f) == IF f.kind = "array" THEN Len(f.elems) ELSE 0
CaEnvVars(doc) ==
  UNION {{<<i, j>> : j \in {m \in 1..FieldLen(doc.containers[i].env) :
                              doc.containers[i].env.elems[m].value = caPath}} :
           i \in 1..Len(doc.containers)}

\* C1: a handled pod whose trigger annotation is absent or empty is allowed
\* unchanged (Allowed, no patch, no patch type, no error), whatever its
\* containers, volumes, env lists and mounts
C1_AllowUnchanged ==
  (Handled /\ Trigger = "") =>
    /\ ~outcome.err
    /\ ~outcome.res.nil
    /\ outcome.res.allowed
    /\ outcome.res.patch.nil
    /\ outcome.res.patchType = ""

C1_Witness ==
  /\ Handled /\ Trigger = ""
  /\ label \in DOMAIN request.raw.annotations
  /\ NumContainers = 2
  /\ FieldLen(request.raw.volumes) = 2
  /\ FieldLen(request.raw.containers[1].env) > 0
  /\ outcome.res.allowed

\* C2: for an annotated pod with N containers the patch has exactly one
\* volume append, of the annotation's secret; per container exactly two env
\* appends (SSL_CERT_FILE and NODE_EXTRA_CA_CERTS, both /ssl/ca.crt) and one
\* read-only mount append of the injected volume; replaying the patch adds
\* exactly one volume and exactly 2*N CA-path env vars
C2_PatchComplete ==
  Annotated =>
    /\ Cardinality(OpsAt(VolumeAppend)) = 1
    /\ \A n \in OpsAt(VolumeAppend) :
         /\ PatchOps[n].value.kind = "volume"
         /\ PatchOps[n].value.secret = SecretSource(Trigger)
    /\ \A i \in 0..(NumContainers - 1) :
         /\ Cardinality(OpsAt(EnvAppend(i))) = 2
         /\ {PatchOps[n].value : n \in OpsAt(EnvAppend(i))}
              = {EnvVar("SSL_CERT_FILE", caPath), EnvVar("NODE_EXTRA_CA_CERTS", caPath)}
         /\ Cardinality(OpsAt(MountAppend(i))) = 1
         /\ \A n \in OpsAt(MountAppend(i)) :
              PatchOps[n].value = Mount(volumeName, mountPath, TRUE)
    /\ Cardinality({n \in 1..Len(PatchOps) :
                      PatchOps[n].path[Len(PatchOps[n].path)] = "-"})
         = 1 + 3 * NumContainers
    /\ LET stored == Stored
       IN  /\ stored.ok
           /\ FieldLen(stored.doc.volumes) = FieldLen(Submitted.volumes) + 1
           /\ Cardinality(CaEnvVars(stored.doc))
                = Cardinality(CaEnvVars(Submitted)) + 2 * NumContainers

C2_Witness ==
  /\ Annotated
  /\ NumContainers = 2
  /\ Submitted.volumes.kind = "absent"
  /\ Cardinality(CaEnvVars(Submitted)) = 1
  /\ Cardinality(CaEnvVars(Stored.doc)) = 5
  /\ FieldLen(Stored.doc.volumes) = 1

\* ---- the operations of the patch against the submitted object
IsAppendOp(n) == PatchOps[n].path[Len(PatchOps[n].path)] = "-"
TargetOf(n) ==
  IF IsAppendOp(n) THEN SubSeq(PatchOps[n].path, 1, Len(PatchOps[n].path) - 1)
  ELSE PatchOps[n].path
IndexValid(n) ==
  PatchOps[n].path[2] = "containers" => IsIndex(PatchOps[n].path[3], NumContainers)
\* the field of the submitted object a target path names
OriginalField(t) ==
  IF t = VolumeInit THEN Submitted.volumes
  ELSE LET ctr == Submitted.containers[IndexOf(t[3], NumContainers)]
       IN  IF t[4] = "env" THEN ctr.env ELSE ctr.volumeMounts
AppendsHaveTarget ==
  \A n \in 1..Len(PatchOps) :
    IsAppendOp(n) =>
      \/ OriginalField(TargetOf(n)).kind = "array"
      \/ \E m \in 1..(n - 1) : ~IsAppendOp(m) /\ PatchOps[m].path = TargetOf(n)
InitOps == {n \in 1..Len(PatchOps) : ~IsAppendOp(n)}

\* C3 as stated: the patch replays, every append has its array (in the
\* object or from an earlier init), every container index is a position of
\* the container list, and an init is emitted only where the object has no
\* array (the field is absent or null)
C3_Original ==
  Annotated =>
    /\ Stored.ok
    /\ \A n \in 1..Len(PatchOps) : IndexValid(n)
    /\ AppendsHaveTarget
    /\ \A n \in InitOps : OriginalField(TargetOf(n)).kind # "array"

\* C3 amended: as stated, but an init is emitted only where the object has
\* no array or, for volumeMounts, an empty array: it never replaces an array
\* that has an element
C3_ValidPatch ==
  Annotated =>
    /\ Stored.ok
    /\ \A n \in 1..Len(PatchOps) : IndexValid(n)
    /\ AppendsHaveTarget
    /\ \A n \in InitOps :
         /\ PatchOps[n].value = EmptyArray
         /\ FieldLen(OriginalField(TargetOf(n))) = 0
         /\ OriginalField(TargetOf(n)).kind = "array" =>
              PatchOps[n].path[Len(PatchOps[n].path)] = "volumeMounts"

C3_Witness ==
  /\ Annotated
  /\ NumContainers = 2
  /\ Submitted.volumes.kind = "null"
  /\ Submitted.containers[1].volumeMounts = ArrayField(<<>>)
  /\ Submitted.containers[2].env.kind = "absent"
  /\ OpsAt(VolumeInit) # {} /\ OpsAt(MountInit(0)) # {} /\ OpsAt(EnvInit(1)) # {}
  /\ Stored.ok

\* ---- per-container array-init rules
Before(m, n) == m < n
EnvInitOnce(i) ==
  /\ Cardinality(OpsAt(EnvInit(i))) = 1
  /\ \A m \in OpsAt(EnvInit(i)) : \A n \in OpsAt(EnvAppend(i)) : Before(m, n)
MountInitOnce(i) ==
  /\ Cardinality(OpsAt(MountInit(i))) = 1
  /\ \A m \in OpsAt(MountInit(i)) : \A n \in OpsAt(MountAppend(i)) : Before(m, n)

\* C4 as stated: a non-empty env list gets no init; a nil or empty env list
\* gets exactly one init before its env appends; the same for volumeMounts
C4_Original ==
  Annotated =>
    \A i \in 0..(NumContainers - 1) :
      LET ctr == Submitted.containers[i + 1]
      IN  /\ FieldLen(ctr.env) > 0 => OpsAt(EnvInit(i)) = {}
          /\ FieldLen(ctr.env) = 0 => EnvInitOnce(i)
          /\ FieldLen(ctr.volumeMounts) > 0 => OpsAt(MountInit(i)) = {}
          /\ FieldLen(ctr.volumeMounts) = 0 => MountInitOnce(i)

\* C4 amended: an env list that is there, empty or not, gets no init; a nil
\* env list (the field absent or null) gets exactly one init before its env
\* appends; volumeMounts as stated (init exactly when nil or empty)
C4_ConditionalInit ==
  Annotated =>
    \A i \in 0..(NumContainers - 1) :
      LET ctr == Submitted.containers[i + 1]
      IN  /\ ctr.env.kind = "array" => OpsAt(EnvInit(i)) = {}
          /\ ctr.env.kind # "array" => EnvInitOnce(i)
          /\ FieldLen(ctr.volumeMounts) > 0 => OpsAt(MountInit(i)) = {}
          /\ FieldLen(ctr.volumeMounts) = 0 => MountInitOnce(i)

C4_Witness ==
  /\ Annotated
  /\ NumContainers = 2
  /\ Submitted.containers[1].env = ArrayField(<<>>)
  /\ OpsAt(EnvInit(0)) = {}
  /\ Submitted.containers[2].env.kind = "absent"
  /\ Cardinality(OpsAt(EnvInit(1))) = 1
  /\ Submitted.containers[2].volumeMounts = ArrayField(<<>>)
  /\ Cardinality(OpsAt(MountInit(1))) = 1

\* C5: a handled call ends either with a response that allows (with or
\* without patch) and no error, or, exactly when the object does not
\* decode, with an error, no response, no patch built and no counter
\* increment; no response ever has Allowed = false
C5_AlwaysAllowed ==
  apc = "done" =>
    \/ /\ ~request.decodes
       /\ outcome.err /\ outcome.res.nil
       /\ outcome.patch.nil /\ outcome.res.patch.nil /\ ~outcome.inc
    \/ /\ request.decodes
       /\ ~outcome.err /\ ~outcome.res.nil /\ outcome.res.allowed

C5_Witness ==
  /\ apc = "done" /\ calls = 2
  /\ ~request.decodes
  /\ outcome.err /\ outcome.res.nil
  /\ \E k \in Keys : ctrPatches[k] = 1

\* ---- the spec's end-to-end example
TwoBareContainers ==
  /\ Annotated
  /\ NumContainers = 2
  /\ FieldLen(Submitted.volumes) = 0
  /\ \A i \in 1..2 : /\ Submitted.containers[i].env.kind # "array"
                     /\ FieldLen(Submitted.containers[i].volumeMounts) = 0

\* C6 as stated: two containers without env list and mounts, no existing
\* volumes: 11 operations
C6_Original == TwoBareContainers => Len(PatchOps) = 11

\* C6 amended: 12 operations when the pod has no volumes field (init-volumes,
\* volume append, and five per container); 11 only when the object carries
\* an empty volumes array
C6_OperationCount ==
  TwoBareContainers =>
    /\ Len(PatchOps) = IF Submitted.volumes.kind = "array" THEN 11 ELSE 12
    /\ Cardinality(OpsAt(VolumeInit) \cup OpsAt(VolumeAppend))
         = IF Submitted.volumes.kind = "array" THEN 1 ELSE 2
    /\ \A i \in 0..1 :
         Cardinality(OpsAt(EnvInit(i)) \cup OpsAt(EnvAppend(i))
                       \cup OpsAt(MountInit(i)) \cup OpsAt(MountAppend(i))) = 5

C6_Witness ==
  /\ TwoBareContainers
  /\ Submitted.volumes.kind = "absent"
  /\ Submitted.name = "worker-1" /\ Trigger = "ca-secret"
  /\ Len(PatchOps) = 12

\* ---- vocabulary of the claims about the Compliance Reconciler
SecretNamed(pod) == Lookup(pod.annotations, label)
MatchingVolumes(pod) ==
  {j \in 1..Len(pod.volumes.elems) :
     /\ ~pod.volumes.elems[j].secret.nil
     /\ pod.volumes.elems[j].secret.secretName = SecretNamed(pod)}
\* annotated with a secret no volume of the pod has
Due(pod) == SecretNamed(pod) # "" /\ MatchingVolumes(pod) = {}

InDelete(j) == rpc = "delete" /\ j = idx
\* the loop body has finished for items[j] in the current pass
Finished(j) == passes > 0 /\ (rpc \in {"pod", "delete"} => j < idx)
\* the loop body has decided about items[j] in the current pass
Decided(j) == Finished(j) \/ InDelete(j)
PassComplete == passes > 0 /\ rpc \notin {"pod", "delete"}

Increments(k) == ctrDeletes[k] - ctrAtList[k]
DeleteCalls(k) == {n \in 1..Len(log) : log[n].call = "delete" /\ log[n].key = k}
EventCalls(k) == {n \in 1..Len(log) : log[n].call = "event" /\ log[n].key = k}

C8_OnePass ==
  \A k \in Keys :
    LET due == {j \in 1..Len(items) : KeyOf(items[j]) = k /\ Due(items[j])}
    IN  /\ Cardinality(due) <= 1
        /\ Cardinality(DeleteCalls(k)) = Cardinality({j \in due : Finished(j)})
        /\ Increments(k) = Cardinality({j \in due : Decided(j)})

C8_Witness ==
  /\ rpc = "sleep" /\ Len(items) = 2
  /\ Due(items[1]) /\ SecretNamed(items[2]) # "" /\ ~Due(items[2])
  /\ Cardinality(DeleteCalls(KeyOf(items[1]))) = 1
  /\ Increments(KeyOf(items[1])) = 1
  /\ DeleteCalls(KeyOf(items[2])) = {}
  /\ Increments(KeyOf(items[2])) = 0
  /\ items[2] \in cluster /\ items[1] \notin cluster

\* C9 as stated: after a failed List the reconciler is still alive
C9_Original == listErr => rpc # "exited"

\* C9 amended: a failed List ends the process (logrus Fatal exits): the
\* reconciler is at its end and no later pass lists again
C9_ListFailureExits == listErr => rpc = "exited"

C9_Witness == listErr /\ rpc = "exited" /\ passes = 1 /\ cluster # {}

\* C10: a failed Delete or Events().Create call ends neither the process nor
\* the pass: when the pass is over every listed pod has had its event call
\* and every due pod its delete call, and a due pod whose delete failed in
\* the pass before is attempted again
C10_FailuresDoNotAbort ==
  /\ rpc = "exited" => listErr
  /\ PassComplete =>
       \A j \in 1..Len(items) :
         /\ EventCalls(KeyOf(items[j])) # {}
         /\ Due(items[j]) => DeleteCalls(KeyOf(items[j])) # {}
  /\ \A j \in 1..Len(items) :
       (Finished(j) /\ KeyOf(items[j]) \in prevFailed /\ Due(items[j]))
         => DeleteCalls(KeyOf(items[j])) # {}

C10_Witness ==
  /\ passes = 2 /\ rpc = "sleep" /\ Len(items) = 2
  /\ eventFailed
  /\ log[2].call = "delete" /\ ~log[2].ok
  /\ log[2].key \in prevFailed
  /\ items[1] \in cluster
  /\ Len(log) = 4 /\ log[4].call = "delete"

\* the pods of the cluster under a namespace and name that are due
DueUnder(k) == {p \in cluster : KeyOf(p) = k /\ Due(p)}
\* a pass that lists the pods is still to come
PassAhead == passes < MaxPasses /\ rpc \in {"startup", "sleep", "list"}
\* the step is a Delete call that succeeded
DeleteSucceeds ==
  /\ rpc = "delete"
  /\ Len(log') = Len(log) + 1
  /\ log'[Len(log')].call = "delete"
  /\ log'[Len(log')].ok

\* C11 as stated: with no other client acting, a due pod listed in a pass is
\* gone when that pass is over
C11_Original ==
  (PassComplete /\ envSteps = 0) =>
    \A j \in 1..Len(items) : Due(items[j]) => items[j] \notin cluster

\* C11 amended: under a fairly scheduled reconciler whose List calls succeed
\* and whose Delete calls eventually succeed, a due pod that is in the
\* cluster before a pass is eventually no longer in the cluster (no due pod
\* is left under its namespace and name); a pass
\* removes the pod only if its one Delete call for the pod succeeds, and a
\* successful Delete call leaves no pod under that namespace and name
C11_EventualRemediation ==
  /\ \A k \in Keys : (DueUnder(k) # {} /\ PassAhead) ~> (DueUnder(k) = {})
  /\ [][DeleteSucceeds =>
          \A q \in cluster' : KeyOf(q) # KeyOf(items[idx])]_vars

C11_Witness ==
  /\ passes = 2 /\ PassComplete /\ envSteps = 0
  /\ \E j \in 1..Len(items) :
       /\ Due(items[j]) /\ items[j] \notin cluster
       /\ KeyOf(items[j]) \in prevFailed
       /\ \E n \in DeleteCalls(KeyOf(items[j])) : log[n].ok

\* the listed pod an entry of the log is about
ItemOf(n) == CHOOSE pod \in Range(items) : KeyOf(pod) = log[n].key

\* C12: the event of a listed pod with at least one owner reference names
\* the first owner reference (the owner's kind, name, UID and API version,
\* with the pod's namespace) and not the pod; the event of a pod without
\* owner references names the pod (its kind, namespace, name, UID)
C12_EventAttribution ==
  \A n \in 1..Len(log) :
    log[n].call = "event" =>
      /\ \E pod \in Range(items) : KeyOf(pod) = log[n].key
      /\ LET pod == ItemOf(n)
             io == log[n].involved
         IN  IF Len(pod.ownerReferences) >= 1
               THEN /\ io.kind = pod.ownerReferences[1].kind
                    /\ io.name = pod.ownerReferences[1].name
                    /\ io.uid = pod.ownerReferences[1].uid
                    /\ io.apiVersion = pod.ownerReferences[1].apiVersion
                    /\ io.namespace = pod.namespace
                    /\ <<io.kind, io.name, io.uid>> # <<pod.kind, pod.name, pod.uid>>
               ELSE /\ io.kind = pod.kind
                    /\ io.namespace = pod.namespace
                    /\ io.name = pod.name
                    /\ io.uid = pod.uid

C12_Witness ==
  /\ PassComplete /\ Len(items) = 2
  /\ \E m, n \in 1..Len(log) :
       /\ log[m].call = "event" /\ log[n].call = "event"
       /\ Len(ItemOf(m).ownerReferences) = 2
       /\ log[m].involved.kind = "ReplicaSet" /\ log[m].involved.name = "worker-rs"
       /\ ItemOf(n).ownerReferences = <<>>
       /\ log[n].involved.kind = "Pod" /\ log[n].involved.name = "worker-1"

\* C13: for every <<namespace, name>> the mutation counter equals the number
\* of admission calls for that pod that returned a patch; a call that allows
\* the object unchanged or fails to decode it leaves every counter as it was,
\* a call that returns a patch adds one for its pod only, and no counter
\* ever decreases
C13_MutationCounter ==
  /\ [](\A k \in Keys : ctrPatches[k] = patched[k])
  /\ [][/\ \A k \in Keys : ctrPatches'[k] >= ctrPatches[k]
        /\ (apc = "pending" /\ apc' = "done") =>
             IF HasPatch(outcome')
               THEN ctrPatches' = [ctrPatches EXCEPT ![KeyOf(request.raw)] = @ + 1]
               ELSE ctrPatches' = ctrPatches]_vars

C13_Witness ==
  /\ apc = "done" /\ calls = 2
  /\ outcome.err
  /\ ctrPatches[<<"default", "worker-1">>] = 1
  /\ ctrPatches[<<"default", "worker-2">>] = 0

\* ---- the order of the operations in the patch
\* the operations of container i (Go's index), and those of the volumes
ContainerBlock(i) ==
  LET index == Itoa(i)
  IN  {n \in 1..Len(PatchOps) :
         PatchOps[n].path[2] = "containers" /\ PatchOps[n].path[3] = index}
VolumeBlock == {n \in 1..Len(PatchOps) : PatchOps[n].path[2] = "volumes"}
OpKind(n) ==
  LET path == PatchOps[n].path
  IN  IF path[Len(path)] = "-"
        THEN (IF path[4] = "env" THEN "env" ELSE "mount")
        ELSE (IF path[4] = "env" THEN "init-env" ELSE "init-mounts")
First(S) == CHOOSE n \in S : \A m \in S : n <= m
\* the kinds of container i's operations in the order of the patch
BlockKinds(i) ==
  LET block == ContainerBlock(i)
      first == First(block)
  IN  [j \in 1..Cardinality(block) |-> OpKind(first + j - 1)]
Opt(present, kind) == IF present THEN <<kind>> ELSE <<>>
\* containers in their original order after the volume operations, every
\* container's operations in one run
BlocksInOrder ==
  LET blocks == [i \in 0..(NumContainers - 1) |-> ContainerBlock(i)]
  IN  /\ \A i \in 0..(NumContainers - 1) :
           /\ blocks[i] # {}
           /\ blocks[i] = First(blocks[i])..(First(blocks[i]) + Cardinality(blocks[i]) - 1)
           /\ \A m \in VolumeBlock : \A n \in blocks[i] : Before(m, n)
           /\ \A h \in 0..(i - 1) :
                \A m \in blocks[h] : \A n \in blocks[i] : Before(m, n)
      /\ VolumeBlock \cup UNION {blocks[i] : i \in 0..(NumContainers - 1)}
           = 1..Len(PatchOps)

\* C14 as stated: per container init-env (if any), the two env appends,
\* init-mounts (if any), the mount append
C14_Original ==
  Annotated =>
    /\ BlocksInOrder
    /\ \A i \in 0..(NumContainers - 1) :
         LET kinds == BlockKinds(i)
         IN  kinds
               = Opt("init-env" \in Range(kinds), "init-env") \o <<"env", "env">>
                   \o Opt("init-mounts" \in Range(kinds), "init-mounts") \o <<"mount">>

\* C14 amended: per container init-mounts (if any), init-env (if any), the
\* two env appends (SSL_CERT_FILE, then NODE_EXTRA_CA_CERTS), the mount
\* append: both inits are put in front of the appends; containers in their
\* original order, after the volume operations
C14_EmissionOrder ==
  Annotated =>
    /\ BlocksInOrder
    /\ \A i \in 0..(NumContainers - 1) :
         LET kinds == BlockKinds(i)
             appends == OpsAt(EnvAppend(i))
         IN  /\ kinds
                  = Opt("init-mounts" \in Range(kinds), "init-mounts")
                      \o Opt("init-env" \in Range(kinds), "init-env")
                      \o <<"env", "env", "mount">>
             /\ \A m, n \in appends :
                  Before(m, n) => /\ PatchOps[m].value.name = "SSL_CERT_FILE"
                                  /\ PatchOps[n].value.name = "NODE_EXTRA_CA_CERTS"

C14_Witness ==
  /\ Annotated /\ NumContainers = 2
  /\ BlockKinds(0) = <<"init-mounts", "init-env", "env", "env", "mount">>
  /\ BlockKinds(1) = <<"init-mounts", "env", "env", "mount">>
  /\ First(ContainerBlock(1)) > First(ContainerBlock(0))
  /\ VolumeBlock = {1}

\* ---- the decider's result under the reconciler's predicate
\* the submitted and the stored object as the reconciler's List decodes them
ListedBefore == DecodeRaw(Submitted)
ListedAfter == DecodeRaw(Stored.doc)

\* C15: for every pod with a non-empty trigger annotation the object with
\* the decider's patch applied is compliant for the reconciler (it has a
\* volume whose secret is the annotation's value), so the loop body does not
\* reach the delete for it; the same pod as submitted, when none of its
\* volumes has that secret, is one the loop body deletes
C15_DeciderReconcilerAgree ==
  Annotated =>
    LET stored == Stored
        after == DecodeRaw(stored.doc)
    IN  /\ stored.ok
        /\ SecretNamed(after) = Trigger
        /\ MatchingVolumes(after) # {}
        /\ ~NeedsDelete(after)
        /\ MatchingVolumes(ListedBefore) = {} => NeedsDelete(ListedBefore)

C15_Witness ==
  /\ Annotated /\ NumContainers = 2
  /\ FieldLen(Submitted.volumes) = 2
  /\ MatchingVolumes(ListedBefore) = {}
  /\ NeedsDelete(ListedBefore)
  /\ MatchingVolumes(ListedAfter) = {3}
  /\ ~NeedsDelete(ListedAfter)

\* C16: a successful Delete call of the reconciler removes only pods that are
\* due at the moment it takes effect: a pod that is compliant then is not
\* deleted, also when it replaced the listed pod under the same namespace
\* and name after the pass's List call
C16_DecidesOnLiveState ==
  [][DeleteSucceeds => \A q \in cluster \ cluster' : Due(q)]_vars

\* the position in items of the pod an entry of the log is about
PosOf(n) == CHOOSE j \in 1..Len(items) : KeyOf(items[j]) = log[n].key

\* C17: in a pass every listed pod, annotated or not and compliant or not,
\* has exactly one event call once the loop body has decided about it and
\* none before; a pod's delete call comes after its event call; the calls
\* follow the order of the listing, so all calls of one pod come before the
\* first call of the next, and no call is made for a pod the loop has not
\* reached
C17_OnePodAtATime ==
  /\ \A j \in 1..Len(items) :
       /\ Cardinality(EventCalls(KeyOf(items[j]))) = IF Decided(j) THEN 1 ELSE 0
       /\ Cardinality(DeleteCalls(KeyOf(items[j]))) <= 1
       /\ DeleteCalls(KeyOf(items[j])) # {} => Finished(j)
       /\ \A m \in EventCalls(KeyOf(items[j])) :
            \A n \in DeleteCalls(KeyOf(items[j])) : n = m + 1
  /\ \A n \in 1..Len(log) : \E j \in 1..Len(items) : KeyOf(items[j]) = log[n].key
  /\ \A m, n \in 1..Len(log) : m < n => PosOf(m) <= PosOf(n)

C17_Witness ==
  /\ PassComplete /\ Len(items) = 2
  /\ Due(items[1]) /\ SecretNamed(items[2]) = ""
  /\ Len(log) = 3
  /\ log[1].call = "event" /\ log[1].key = KeyOf(items[1])
  /\ log[2].call = "delete" /\ log[2].key = KeyOf(items[1])
  /\ log[3].call = "event" /\ log[3].key = KeyOf(items[2])

\* ---- the volume names of an object
VolumeNames(doc) == [j \in 1..FieldLen(doc.volumes) |-> doc.volumes.elems[j].name]
Distinct(seq) == \A m, n \in 1..Len(seq) : seq[m] = seq[n] => m = n

\* C18: for every annotated pod whose volume names are pairwise distinct,
\* the object with the patch applied has pairwise distinct volume names and
\* exactly one volume named microcumulus-injected-ssl, also when the
\* submitted pod has a volume of that name already or is a mutated pod
\* admitted again
C18_InjectedNameDistinct ==
  (Annotated /\ Distinct(VolumeNames(Submitted))) =>
    /\ Stored.ok
    /\ Distinct(VolumeNames(Stored.doc))
    /\ Cardinality({j \in 1..Len(VolumeNames(Stored.doc)) :
                      VolumeNames(Stored.doc)[j] = volumeName}) = 1

\* ---- what the patch leaves of the submitted object
\* the elements of field f are the first elements of field g, in their order
KeptIn(f, g) ==
  /\ FieldLen(f) <= FieldLen(g)
  /\ \A j \in 1..FieldLen(f) : g.elems[j] = f.elems[j]
PatchedPaths ==
  {VolumeInit}
    \cup UNION {{EnvInit(i), MountInit(i)} : i \in 0..(NumContainers - 1)}

\* C19: every operation of the patch is an "add" on /spec/volumes,
\* /spec/containers/i/env or /spec/containers/i/volumeMounts (the array or
\* its end); with the patch applied every volume, env var and volume mount
\* of the submitted pod is still there, unchanged and in its place; an
\* array-init is emitted only for an array without elements; name,
\* namespace, annotations and the number of containers are as submitted
C19_PurelyAdditive ==
  Annotated =>
    LET stored == Stored
        paths == PatchedPaths
    IN  /\ \A n \in 1..Len(PatchOps) :
             /\ PatchOps[n].op = "add"
             /\ TargetOf(n) \in paths
             /\ ~IsAppendOp(n) => FieldLen(OriginalField(TargetOf(n))) = 0
        /\ stored.ok
        /\ KeptIn(Submitted.volumes, stored.doc.volumes)
        /\ Len(stored.doc.containers) = NumContainers
        /\ \A i \in 1..NumContainers :
             /\ KeptIn(Submitted.containers[i].env, stored.doc.containers[i].env)
             /\ KeptIn(Submitted.containers[i].volumeMounts,
                       stored.doc.containers[i].volumeMounts)
        /\ stored.doc.namespace = Submitted.namespace
        /\ stored.doc.name = Submitted.name
        /\ stored.doc.annotations = Submitted.annotations

C19_Witness ==
  /\ Annotated /\ NumContainers = 2
  /\ FieldLen(Submitted.volumes) = 2 /\ FieldLen(Stored.doc.volumes) = 3
  /\ FieldLen(Submitted.containers[1].env) = 2
  /\ FieldLen(Stored.doc.containers[1].env) = 4
  /\ FieldLen(Submitted.containers[1].volumeMounts) = 1
  /\ FieldLen(Stored.doc.containers[1].volumeMounts) = 2
  /\ FieldLen(Submitted.containers[2].env) = 0
  /\ OpsAt(EnvInit(1)) # {}

\* the Delete call the loop is about to make is for key k
Pending(k) == IF rpc = "delete" /\ KeyOf(items[idx]) = k THEN 1 ELSE 0

\* C20: for every <<namespace, name>> the deletion counter equals the number
\* of Delete calls made for it, failed ones included, plus the one the loop
\* is about to make (the increment comes first); when a pass is over the two
\* are equal; a Delete call, failed or not, leaves the counter as it is, and
\* the counter never decreases
C20_DeletionCounter ==
  /\ [](\A k \in Keys :
          /\ ctrDeletes[k] = issued[k] + Pending(k)
          /\ PassComplete => ctrDeletes[k] = issued[k])
  /\ [][/\ \A k \in Keys : ctrDeletes'[k] >= ctrDeletes[k]
        /\ issued' # issued => ctrDeletes' = ctrDeletes]_vars

\* two failed Delete calls for a pod that is still there: the counter is 2,
\* no pod was deleted
C20_Witness ==
  /\ passes = 2 /\ PassComplete /\ envSteps = 0
  /\ \E j \in 1..Len(items) :
       /\ items[j] \in cluster
       /\ ctrDeletes[KeyOf(items[j])] = 2
       /\ issued[KeyOf(items[j])] = 2
       /\ KeyOf(items[j]) \in prevFailed
       /\ \A n \in DeleteCalls(KeyOf(items[j])) : ~log[n].ok

====
